---- MODULE Spec2Model ----
(***************************************************************************)
(* Model of the image-convolution programs of Parcial_01_Paralela:         *)
(*   filter.cpp          sequential reference                              *)
(*   filter_phtreads.cpp four quadrant threads on one shared output buffer *)
(*   filter_MPI.cpp      row bands scattered to ranks and gathered         *)
(* Samples are C ints, kernel weights and the running sum are IEEE-754     *)
(* single precision values, modelled exactly as m * 2^e with |m| < 2^24.   *)
(***************************************************************************)
EXTENDS Integers, Sequences, FiniteSets, TLC

\* ------------------------------------------------------------------ bounds
MaxW == 3
MaxH == 3
MaxColor == 7
MaxSize == 3
PthMaxSamples == 4
MpiMaxRowLen == 3
QuadMaxDim == 5
OmpMaxPixels == 4
UniMaxDim == 4
thread_count == 3
MaxChunk == 2
MaxA == 3

\* ------------------------------------------------------- single precision
\* Number of significand bits of a C float.
FloatBits == 24
\* Significand of 1/9.f: 1/9.f = 14913081 * 2^-27.
BlurMant == 14913081
BlurExp == 27

Abs(n) == IF n < 0 THEN -n ELSE n

Sgn(n) == IF n < 0 THEN -1 ELSE 1

Min(a, b) == IF a < b THEN a ELSE b

\* The float nearest to M * 2^e (round to nearest, ties to even).
FloatRound(M, e) ==
    LET a == Abs(M)
        lim == 2 ^ FloatBits
        k == CHOOSE j \in 0..8 :
                 /\ a \div (2 ^ j) < lim
                 /\ (j = 0 \/ a \div (2 ^ (j - 1)) >= lim)
        q == a \div (2 ^ k)
        r == a % (2 ^ k)
        up == k > 0 /\ (2 * r > 2 ^ k \/ (2 * r = 2 ^ k /\ q % 2 = 1))
        q2 == IF up THEN q + 1 ELSE q
    IN  IF q2 = lim
        THEN [m |-> Sgn(M) * (lim \div 2), e |-> e + k + 1]
        ELSE [m |-> Sgn(M) * q2, e |-> e + k]

\* float sum = 0.0f
FloatZero == [m |-> 0, e |-> 0]

\* An integer-valued float literal of a kernel table ({0, -1, 0}, ...).
FloatOfInt(n) == [m |-> n, e |-> 0]

\* input.pixels[idx] * kernel[..][..]: the int is converted to float (exact
\* below 2^24) and the product is rounded to float.
FloatMulInt(p, w) == FloatRound(p * w.m, w.e)

\* sum += product: the exact sum of two floats, rounded to float.
FloatAdd(a, b) ==
    IF a.m = 0 THEN b
    ELSE IF b.m = 0 THEN a
    ELSE LET e == Min(a.e, b.e)
         IN  FloatRound(a.m * (2 ^ (a.e - e)) + b.m * (2 ^ (b.e - e)), e)

\* A conversion that rounds to the nearest integer instead.
FloatToIntRound(f) ==
    IF f.e >= 0 THEN f.m * (2 ^ f.e)
    ELSE LET d == 2 ^ (-f.e)
         IN  Sgn(f.m) * ((2 * Abs(f.m) + d) \div (2 * d))

\* (int)sum: conversion to int truncates toward zero.
FloatToInt(f) ==
    IF f.e >= 0 THEN f.m * (2 ^ f.e)
    ELSE Sgn(f.m) * (Abs(f.m) \div (2 ^ (-f.e)))

\* ------------------------------------------------------------- clampValue
\* A clamp that forgets the upper bound.
clampValueNoMax(val, minVal, maxVal) ==
    IF val < minVal THEN minVal ELSE val

clampValue(val, minVal, maxVal) ==
    IF val < minVal THEN minVal
    ELSE IF val > maxVal THEN maxVal
    ELSE val

\* ---------------------------------------------------------------- kernels
KernelOf(rows) ==
    [ky \in 0..2 |-> [kx \in 0..2 |-> rows[ky + 1][kx + 1]]]

BlurW == [m |-> BlurMant, e |-> -BlurExp]

\* The table written {1/9, 1/9, ...}: the integer quotient 1/9 is 0.
BlurFilterIntDiv ==
    KernelOf(<< <<FloatOfInt(0), FloatOfInt(0), FloatOfInt(0)>>,
                <<FloatOfInt(0), FloatOfInt(0), FloatOfInt(0)>>,
                <<FloatOfInt(0), FloatOfInt(0), FloatOfInt(0)>> >>)

BlurFilter ==
    KernelOf(<< <<BlurW, BlurW, BlurW>>,
                <<BlurW, BlurW, BlurW>>,
                <<BlurW, BlurW, BlurW>> >>)

LaplaceFilter ==
    KernelOf(<< <<FloatOfInt(0), FloatOfInt(-1), FloatOfInt(0)>>,
                <<FloatOfInt(-1), FloatOfInt(4), FloatOfInt(-1)>>,
                <<FloatOfInt(0), FloatOfInt(-1), FloatOfInt(0)>> >>)

SharpenFilter ==
    KernelOf(<< <<FloatOfInt(0), FloatOfInt(-1), FloatOfInt(0)>>,
                <<FloatOfInt(-1), FloatOfInt(5), FloatOfInt(-1)>>,
                <<FloatOfInt(0), FloatOfInt(-1), FloatOfInt(0)>> >>)

FilterNames == {"blur", "laplace", "sharpen"}

\* Filter* filter = NULL: no kernel.
NoFilter == <<>>

\* A chain whose final else falls back to the blur filter.
SelectFilterDefaultBlur(filterArg) ==
    IF filterArg = "laplace" THEN LaplaceFilter
    ELSE IF filterArg = "sharpen" THEN SharpenFilter
    ELSE BlurFilter

SelectFilter(filterArg) ==
    IF filterArg = "blur" THEN BlurFilter
    ELSE IF filterArg = "laplace" THEN LaplaceFilter
    ELSE IF filterArg = "sharpen" THEN SharpenFilter
    ELSE NoFilter

\* ----------------------------------------------------------------- images
\* int channels = (input.magic == "P3") ? 3 : 1;
Channels(magic) == IF magic = "P3" THEN 3 ELSE 1

\* (y * width + x) * channels + c
PixelIndex(width, channels, x, y, c) == (y * width + x) * channels + c

\* A read of input.pixels[idx]. The guard of the tap loop keeps idx inside
\* the buffer; outside it the read is undefined and is given the value 0.
ReadPixel(input, idx) ==
    IF idx \in DOMAIN input.pixels THEN input.pixels[idx] ELSE 0

\* ------------------------------------------------------ stencil evaluator
\* A guard that forgets nx >= 0.
TapInBoundsNoLeft(input, nx, ny) ==
    nx < input.width /\ ny >= 0 /\ ny < input.height

\* if (nx >= 0 && nx < input.width && ny >= 0 && ny < input.height)
TapInBounds(input, nx, ny) ==
    nx >= 0 /\ nx < input.width /\ ny >= 0 /\ ny < input.height

\* int kw = kernel[0].size(); int half = kw / 2;
KernelHalf(kernel) == Cardinality(DOMAIN kernel[0]) \div 2

\* The t-th tap (from 0) in the order the two loops visit them:
\* for ky = -half..half, for kx = -half..half.
TapAt(half, t) ==
    [ky |-> (t \div (2 * half + 1)) - half, kx |-> (t % (2 * half + 1)) - half]

TapCount(half) == (2 * half + 1) * (2 * half + 1)

\* The reads of input.pixels the tap loops make for output sample (x, y, c).
TapReads(input, kernel, x, y, c) ==
    LET half == KernelHalf(kernel)
        ch == Channels(input.magic)
    IN  { [kx |-> TapAt(half, t).kx, ky |-> TapAt(half, t).ky,
           idx |-> PixelIndex(input.width, ch,
                              x + TapAt(half, t).kx, y + TapAt(half, t).ky, c)] :
          t \in { u \in 0..(TapCount(half) - 1) :
                    TapInBounds(input, x + TapAt(half, u).kx, y + TapAt(half, u).ky) } }

RECURSIVE SumTaps(_, _, _, _, _, _, _, _)
\* The float sum after taps t, t+1, ... have been visited, starting from sum.
SumTaps(input, kernel, half, x, y, c, t, sum) ==
    IF t >= TapCount(half) THEN sum
    ELSE LET ky == (t \div (2 * half + 1)) - half
             kx == (t % (2 * half + 1)) - half
             nx == x + kx
             ny == y + ky
         IN  IF TapInBounds(input, nx, ny)
             THEN SumTaps(input, kernel, half, x, y, c, t + 1,
                      FloatAdd(sum,
                          FloatMulInt(
                              ReadPixel(input,
                                  PixelIndex(input.width, Channels(input.magic), nx, ny, c)),
                              kernel[ky + half][kx + half])))
             ELSE SumTaps(input, kernel, half, x, y, c, t + 1, sum)

\* The value stored when float sum is declared before the loop over c and
\* so is not reset between the channels of a pixel.
PixelValueSumKept(input, kernel, x, y, c) ==
    LET half == KernelHalf(kernel)
        s0 == SumTaps(input, kernel, half, x, y, 0, 0, FloatZero)
        s1 == SumTaps(input, kernel, half, x, y, 1, 0, s0)
        s2 == SumTaps(input, kernel, half, x, y, 2, 0, s1)
    IN  clampValue(FloatToInt(IF c = 0 THEN s0 ELSE IF c = 1 THEN s1 ELSE s2),
                   0, input.maxColor)

\* clampValue((int)sum, 0, input.maxColor): the value stored for (x, y, c).
PixelValue(input, kernel, x, y, c) ==
    clampValue(FloatToInt(SumTaps(input, kernel, KernelHalf(kernel), x, y, c, 0, FloatZero)),
               0, input.maxColor)

\* The coordinates (x, y, c) the three nested loops of a region visit.
RegionCoords(input, startX, startY, endX, endY) ==
    { <<x, y, c>> \in (startX..(endX - 1)) \X (startY..(endY - 1))
                       \X (0..(Channels(input.magic) - 1)) : TRUE }

\* output = input, then every (x, y, c) of coords stores its value at
\* (y * width + x) * channels + c of output.pixels.
StoreAll(input, kernel, coords) ==
    LET ch == Channels(input.magic)
        At(j) == { w \in coords :
                     PixelIndex(input.width, ch, w[1], w[2], w[3]) = j }
    IN  [input EXCEPT !.pixels =
            [j \in DOMAIN input.pixels |->
                IF At(j) = {} THEN input.pixels[j]
                ELSE LET w == CHOOSE w \in At(j) : TRUE
                     IN  PixelValue(input, kernel, w[1], w[2], w[3])]]

\* filter.cpp, ConvolutionFilter::aplicar: the loops run over the whole image.
aplicar(input, kernel) ==
    StoreAll(input, kernel, RegionCoords(input, 0, 0, input.width, input.height))

\* filter_MPI.cpp, ConvolutionFilter::applyRegion on output = input: the loops
\* run over rows startY..endY-1 and every column.
applyRegion(input, kernel, startY, endY) ==
    StoreAll(input, kernel, RegionCoords(input, 0, startY, input.width, endY))

\* Every read of input.pixels a whole-image aplicar makes.
aplicarReads(input, kernel) ==
    UNION { { [x |-> w[1], y |-> w[2], c |-> w[3],
               kx |-> r.kx, ky |-> r.ky, idx |-> r.idx] :
               r \in TapReads(input, kernel, w[1], w[2], w[3]) } :
            w \in RegionCoords(input, 0, 0, input.width, input.height) }

\* ----------------------------------------------------------- input files
\* Image img, result; before load: no samples.
EmptyImage ==
    [magic |-> "", width |-> 0, height |-> 0, maxColor |-> 0, pixels |-> <<>>]

\* Sample patterns of n samples with ceiling M: every constant image, a ramp,
\* and every single-sample impulse.
PixelPatterns(n, M) ==
    { [i \in 0..(n - 1) |-> v] : v \in 0..M }
      \cup { [i \in 0..(n - 1) |-> i % (M + 1)] }
      \cup { [i \in 0..(n - 1) |-> IF i = k THEN M ELSE 0] : k \in 0..(n - 1) }

\* The ramp alone.
RampPattern(n, M) == { [i \in 0..(n - 1) |-> i % (M + 1)] }

\* Image::load: magic, width, height, maxColor, then width*height*channels
\* samples.
ImagesOf(W, H, M, ramps) ==
    UNION { { [magic |-> mg, width |-> w, height |-> h, maxColor |-> M, pixels |-> px] :
                px \in IF ramps THEN RampPattern(w * h * Channels(mg), M)
                       ELSE PixelPatterns(w * h * Channels(mg), M) } :
            <<mg, w, h>> \in {"P2", "P3"} \X (1..W) \X (1..H) }

Images == ImagesOf(MaxW, MaxH, MaxColor, FALSE)

RampImages == ImagesOf(MaxW, MaxH, MaxColor, TRUE)

FilterArgs == FilterNames \cup {"other"}

VARIABLES
    fileOk,     \* argv[1] can be opened
    file,       \* the decoded content of argv[1]
    filterArg,  \* argv[3]
    pc,         \* position of main
    img,        \* Image img
    result,     \* Image result
    reads,      \* the reads of img.pixels made by the convolution
    outFile,    \* the content saved to argv[2]
    saved,      \* argv[2] has been written
    exitCode,   \* return value of main, -1 while running
    iMain,      \* filter_phtreads.cpp: loop counter i of main
    data,       \* filter_phtreads.cpp: ThreadInfo data[4]
    thr,        \* filter_phtreads.cpp: state of each of the four threads
    writes,     \* filter_phtreads.cpp: the stores to output.pixels made so far
    corrupt,    \* filter_phtreads.cpp: what the stores outside result.pixels overwrote
    size,       \* filter_MPI.cpp: number of ranks (MPI_Comm_size)
    rpc,        \* filter_MPI.cpp: position of main on each rank
    nb,         \* filter_MPI.cpp: broadcasts each rank has completed
    loc,        \* filter_MPI.cpp: the locals of main on each rank
    sendcounts, \* filter_MPI.cpp: sendcounts on rank 0
    displs,     \* filter_MPI.cpp: displs on rank 0
    bcast,      \* filter_MPI.cpp: the values rank 0 has broadcast, in order
    scat,       \* filter_MPI.cpp: what rank 0 sent in MPI_Scatter, <<>> before
    scatv,      \* filter_MPI.cpp: what rank 0 sent in MPI_Scatterv, <<>> before
    gath,       \* filter_MPI.cpp: what each rank sent in MPI_Gatherv
    resultPixels, \* filter_MPI.cpp: resultPixels on rank 0
    rexit,      \* filter_MPI.cpp: return value of main on each rank, -1 while running
    calls,      \* filter_MPI.cpp: the collective operations each rank has entered, in order
    variant,    \* the program that is run (argv[0])
    kernel,     \* ConvolutionFilter::kernel of a filter built from a weight table
    ompPc,      \* filter_omp.cpp: position of each section
    ompTodo,    \* filter_omp.cpp: the collapsed (y, x) iterations each section has left
    ompRes,     \* filter_omp.cpp: resultBlur, resultLaplace, resultSharpen
    ompWrites,  \* filter_omp.cpp: the stores the iterations have made
    ompOut,     \* filter_omp.cpp: out_blur.ppm, out_laplace.ppm, out_sharpen.ppm
    A,          \* Ejercicio_02.cpp: int A[n]
    sumEj,      \* Ejercicio_02.cpp: double sum
    paralel_sum, \* Ejercicio_02.cpp: the thread that holds the mutex, -1 if none
    ejPc,       \* Ejercicio_02.cpp: position of main
    tEj,        \* Ejercicio_02.cpp: loop counter t of main
    worker,     \* Ejercicio_02.cpp: position and locals of each CalcularSuma
    added       \* Ejercicio_02.cpp: times each thread has executed sum += local_sum

mainVars == <<fileOk, file, filterArg, pc, img, result, reads, outFile, saved, exitCode>>

pthVars == <<iMain, data, thr, writes, corrupt>>

mpiVars == <<size, rpc, nb, loc, sendcounts, displs, bcast, scat, scatv, gath,
             resultPixels, rexit, calls>>

convVars == <<variant, kernel>>

ompVars == <<ompPc, ompTodo, ompRes, ompWrites, ompOut>>

ejVars == <<A, sumEj, paralel_sum, ejPc, tEj, worker, added>>

vars == <<mainVars, pthVars, mpiVars, convVars, ompVars, ejVars>>

Threads == 0..3

InitMain(files) ==
    /\ \/ fileOk = TRUE /\ file \in files
       \/ fileOk = FALSE /\ file = EmptyImage
    /\ filterArg \in FilterArgs
    /\ pc = "load"
    /\ img = EmptyImage
    /\ result = EmptyImage
    /\ reads = {}
    /\ outFile = EmptyImage
    /\ saved = FALSE
    /\ exitCode = -1

InitPth ==
    /\ iMain = 0
    /\ data = <<>>
    /\ thr = [t \in Threads |-> [st |-> "none", k |-> 0]]
    /\ writes = {}
    /\ corrupt = {}

\* Image img, localInput, localOutput and the ints of main, before any is set.
LocInit ==
    [width |-> 0, height |-> 0, maxColor |-> 0, magicLen |-> 0, magic |-> "",
     localRows |-> 0, localSize |-> 0,
     localInput |-> EmptyImage, localOutput |-> EmptyImage]

InitMpi(sizes) ==
    /\ size \in sizes
    /\ rpc = [r \in 0..(size - 1) |-> "select"]
    /\ nb = [r \in 0..(size - 1) |-> 0]
    /\ loc = [r \in 0..(size - 1) |-> LocInit]
    /\ sendcounts = <<>>
    /\ displs = <<>>
    /\ bcast = <<>>
    /\ scat = <<>>
    /\ scatv = <<>>
    /\ gath = [r \in 0..(size - 1) |-> [sent |-> FALSE, pixels |-> <<>>]]
    /\ resultPixels = <<>>
    /\ rexit = [r \in 0..(size - 1) |-> -1]
    /\ calls = [r \in 0..(size - 1) |-> <<>>]

\* The other programs have no ranks.
NoMpi == InitMpi({0})

\* The program v is run; no filter has been built from a weight table.
InitConv(v) ==
    /\ variant = v
    /\ kernel = NoFilter

\* The programs other than filter_omp.cpp have no sections.
NoOmp ==
    /\ ompPc = <<>>
    /\ ompTodo = <<>>
    /\ ompRes = <<>>
    /\ ompWrites = {}
    /\ ompOut = <<>>

\* The programs other than Ejercicio_02.cpp have no array and no sum.
NoEj ==
    /\ A = <<>>
    /\ sumEj = 0
    /\ paralel_sum = -1
    /\ ejPc = "none"
    /\ tEj = 0
    /\ worker = <<>>
    /\ added = <<>>

\* ------------------------------------------------------------ filter.cpp
\* if (!img.load(argv[1])) return 1;
SeqLoad ==
    /\ pc = "load"
    /\ IF fileOk
       THEN /\ img' = file
            /\ pc' = "select"
            /\ UNCHANGED exitCode
       ELSE /\ pc' = "exit"
            /\ exitCode' = 1
            /\ UNCHANGED img
    /\ UNCHANGED <<fileOk, file, filterArg, result, reads, outFile, saved>>
    /\ UNCHANGED pthVars
    /\ UNCHANGED mpiVars
    /\ UNCHANGED <<convVars, ompVars>>
    /\ UNCHANGED ejVars

\* the if / else-if chain on filterArg; else return 1
SeqSelect ==
    /\ pc = "select"
    /\ IF SelectFilter(filterArg) = NoFilter
       THEN /\ pc' = "exit"
            /\ exitCode' = 1
       ELSE /\ pc' = "aplicar"
            /\ UNCHANGED exitCode
    /\ UNCHANGED <<fileOk, file, filterArg, img, result, reads, outFile, saved>>
    /\ UNCHANGED pthVars
    /\ UNCHANGED mpiVars
    /\ UNCHANGED <<convVars, ompVars>>
    /\ UNCHANGED ejVars

\* filter->aplicar(img, result);
SeqAplicar ==
    /\ pc = "aplicar"
    /\ result' = aplicar(img, SelectFilter(filterArg))
    /\ reads' = aplicarReads(img, SelectFilter(filterArg))
    /\ pc' = "save"
    /\ UNCHANGED <<fileOk, file, filterArg, img, outFile, saved, exitCode>>
    /\ UNCHANGED pthVars
    /\ UNCHANGED mpiVars
    /\ UNCHANGED <<convVars, ompVars>>
    /\ UNCHANGED ejVars

\* result.save(argv[2]); ... return 0;
SeqSave ==
    /\ pc = "save"
    /\ outFile' = result
    /\ saved' = TRUE
    /\ pc' = "exit"
    /\ exitCode' = 0
    /\ UNCHANGED <<fileOk, file, filterArg, img, result, reads>>
    /\ UNCHANGED pthVars
    /\ UNCHANGED mpiVars
    /\ UNCHANGED <<convVars, ompVars>>
    /\ UNCHANGED ejVars

SeqInit == InitMain(Images) /\ InitPth /\ NoMpi /\ InitConv("filter") /\ NoOmp /\ NoEj

SeqNext == SeqLoad \/ SeqSelect \/ SeqAplicar \/ SeqSave

SpecSeq == SeqInit /\ [][SeqNext]_vars

\* filter.cpp on files whose samples all have one value v, ceiling M.
UniformImages(W, H, M, v) ==
    { [magic |-> mg, width |-> w, height |-> h, maxColor |-> M,
       pixels |-> [i \in 0..(w * h * Channels(mg) - 1) |-> v]] :
      mg \in {"P2", "P3"}, w \in 1..W, h \in 1..H }

UniInit ==
    /\ InitMain(UniformImages(UniMaxDim, UniMaxDim, 255, 100))
    /\ InitPth /\ NoMpi /\ InitConv("filter") /\ NoOmp /\ NoEj

SpecUni == UniInit /\ [][SeqNext]_vars

\* ------------------------------- filter.cpp, ConvolutionFilter on a table
\* A 3x3 table whose only nonzero weight is 1 at row ky, column kx.
UnitKernel(ky, kx) ==
    [a \in 0..2 |-> [b \in 0..2 |->
        IF a = ky /\ b = kx THEN FloatOfInt(1) ELSE FloatOfInt(0)]]

\* The table with 1 at the centre.
IdentityKernel == UnitKernel(1, 1)

\* The tables a ConvolutionFilter is built from: those of the three filters
\* and the nine unit tables.
KernelTables ==
    {BlurFilter, LaplaceFilter, SharpenFilter}
       \cup { UnitKernel(ky, kx) : ky \in 0..2, kx \in 0..2 }

\* ConvolutionFilter(const vector<vector<float> >& k) : kernel(k) {}
ConvConstruct ==
    /\ pc = "construct"
    /\ \E k \in KernelTables : kernel' = k
    /\ pc' = "aplicar"
    /\ UNCHANGED <<fileOk, file, filterArg, img, result, reads, outFile, saved, exitCode>>
    /\ UNCHANGED <<pthVars, mpiVars, variant, ompVars>>
    /\ UNCHANGED ejVars

\* aplicar(input, output) of the filter built from the table.
ConvAplicar ==
    /\ pc = "aplicar"
    /\ result' = aplicar(img, kernel)
    /\ reads' = aplicarReads(img, kernel)
    /\ pc' = "done"
    /\ UNCHANGED <<fileOk, file, filterArg, img, outFile, saved, exitCode>>
    /\ UNCHANGED <<pthVars, mpiVars, convVars, ompVars>>
    /\ UNCHANGED ejVars

\* An image whose samples lie in [0, maxColor] is held in img; no filter yet.
ConvInit ==
    /\ fileOk = TRUE
    /\ file \in Images
    /\ filterArg = ""
    /\ pc = "construct"
    /\ img = file
    /\ result = EmptyImage
    /\ reads = {}
    /\ outFile = EmptyImage
    /\ saved = FALSE
    /\ exitCode = -1
    /\ InitPth /\ NoMpi /\ InitConv("ConvolutionFilter") /\ NoOmp /\ NoEj

ConvNext == ConvConstruct \/ ConvAplicar

SpecConv == ConvInit /\ [][ConvNext]_vars

\* ---------------------------------------------------- filter_phtreads.cpp
\* The table with the right-hand quadrants starting one column late.
QuadrantTableGap(width, height) ==
    LET midX == width \div 2
        midY == height \div 2
    IN  [t \in 0..3 |->
           CASE t = 0 -> [startX |-> 0, startY |-> 0, endX |-> midX, endY |-> midY]
             [] t = 1 -> [startX |-> midX + 1, startY |-> 0, endX |-> width, endY |-> midY]
             [] t = 2 -> [startX |-> 0, startY |-> midY, endX |-> midX, endY |-> height]
             [] t = 3 -> [startX |-> midX + 1, startY |-> midY, endX |-> width, endY |-> height]]

\* The table with the midpoints rounded up.
QuadrantTableCeil(width, height) ==
    LET midX == (width + 1) \div 2
        midY == (height + 1) \div 2
    IN  [t \in 0..3 |->
           CASE t = 0 -> [startX |-> 0, startY |-> 0, endX |-> midX, endY |-> midY]
             [] t = 1 -> [startX |-> midX, startY |-> 0, endX |-> width, endY |-> midY]
             [] t = 2 -> [startX |-> 0, startY |-> midY, endX |-> midX, endY |-> height]
             [] t = 3 -> [startX |-> midX, startY |-> midY, endX |-> width, endY |-> height]]

\* int midX = img.width / 2; int midY = img.height / 2; ThreadInfo data[4]
QuadrantTable(width, height) ==
    LET midX == width \div 2
        midY == height \div 2
    IN  [t \in Threads |->
           CASE t = 0 -> [startX |-> 0, startY |-> 0, endX |-> midX, endY |-> midY]
             [] t = 1 -> [startX |-> midX, startY |-> 0, endX |-> width, endY |-> midY]
             [] t = 2 -> [startX |-> 0, startY |-> midY, endX |-> midX, endY |-> height]
             [] t = 3 -> [startX |-> midX, startY |-> midY, endX |-> width, endY |-> height]]

\* Func: the arguments it hands to ApliRegion:
\* (data->startX, data->startY, data->endY, data->endY).
FuncArgs(d) ==
    [startX |-> d.startX, startY |-> d.startY, endX |-> d.endY, endY |-> d.endY]

Pos(n) == IF n < 0 THEN 0 ELSE n

\* Number of samples the loops of ApliRegion store for region a.
RegionLen(a, ch) == Pos(a.endY - a.startY) * Pos(a.endX - a.startX) * ch

\* The k-th (from 0) coordinate of ApliRegion's loops: y outer, x, c inner.
RegionAt(a, ch, k) ==
    LET wx == a.endX - a.startX
    IN  [x |-> a.startX + ((k \div ch) % wx),
         y |-> a.startY + (k \div (ch * wx)),
         c |-> k % ch]

\* The next store of thread t: output.pixels[idx] = clampValue((int)sum, ...)
NextStore(t) ==
    LET ch == Channels(img.magic)
        w == RegionAt(FuncArgs(data[t]), ch, thr[t].k)
    IN  [t |-> t, x |-> w.x, y |-> w.y, c |-> w.c,
         idx |-> PixelIndex(img.width, ch, w.x, w.y, w.c),
         val |-> PixelValue(img, SelectFilter(filterArg), w.x, w.y, w.c)]

\* Thread t has a store left to do.
Pending(t) ==
    /\ thr[t].st = "run"
    /\ thr[t].k < RegionLen(FuncArgs(data[t]), Channels(img.magic))

\* if (!img.load(argv[1])) return 1; result = img;
PthLoad ==
    /\ pc = "load"
    /\ IF fileOk
       THEN /\ img' = file
            /\ result' = file
            /\ pc' = "select"
            /\ UNCHANGED exitCode
       ELSE /\ pc' = "exit"
            /\ exitCode' = 1
            /\ UNCHANGED <<img, result>>
    /\ UNCHANGED <<fileOk, file, filterArg, reads, outFile, saved>>
    /\ UNCHANGED pthVars
    /\ UNCHANGED mpiVars
    /\ UNCHANGED <<convVars, ompVars>>
    /\ UNCHANGED ejVars

PthSelect ==
    /\ pc = "select"
    /\ IF SelectFilter(filterArg) = NoFilter
       THEN /\ pc' = "exit"
            /\ exitCode' = 1
       ELSE /\ pc' = "split"
            /\ UNCHANGED exitCode
    /\ UNCHANGED <<fileOk, file, filterArg, img, result, reads, outFile, saved>>
    /\ UNCHANGED pthVars
    /\ UNCHANGED mpiVars
    /\ UNCHANGED <<convVars, ompVars>>
    /\ UNCHANGED ejVars

\* Dividir en 4 regiones
PthSplit ==
    /\ pc = "split"
    /\ data' = QuadrantTable(img.width, img.height)
    /\ pc' = "create"
    /\ iMain' = 0
    /\ UNCHANGED <<fileOk, file, filterArg, img, result, reads, outFile, saved, exitCode>>
    /\ UNCHANGED <<thr, writes, corrupt>>
    /\ UNCHANGED mpiVars
    /\ UNCHANGED <<convVars, ompVars>>
    /\ UNCHANGED ejVars

\* for (i = 0; i < 4; i++) pthread_create(&threads[i], NULL, Func, &data[i]);
PthCreate ==
    /\ pc = "create"
    /\ thr' = [thr EXCEPT ![iMain].st = "run"]
    /\ IF iMain + 1 < 4
       THEN iMain' = iMain + 1 /\ UNCHANGED pc
       ELSE iMain' = 0 /\ pc' = "join"
    /\ UNCHANGED <<fileOk, file, filterArg, img, result, reads, outFile, saved, exitCode>>
    /\ UNCHANGED <<data, writes, corrupt>>
    /\ UNCHANGED mpiVars
    /\ UNCHANGED <<convVars, ompVars>>
    /\ UNCHANGED ejVars

\* What the heap of main holds right after result.pixels: the filter object
\* with its kernel, allocated next, and memory that belongs to no object of
\* the job (the allocator's own records).  img.pixels was allocated earlier
\* and lies out of reach of the indices the threads compute.
HeapPast == {"kernel", "other"}

\* The iteration thread t is about to make is the last one any thread has left.
LastIteration(t) ==
    LET ch == Channels(img.magic)
    IN  /\ thr[t].k + 1 = RegionLen(FuncArgs(data[t]), ch)
        /\ \A u \in Threads \ {t} : thr[u].k = RegionLen(FuncArgs(data[u]), ch)

\* One iteration of ApliRegion's loops in thread t, or its return.  A store
\* outside result.pixels is undefined: it overwrites whatever the allocator
\* placed there, or ends the process.  A store into the kernel leaves the
\* pointer through which every later iteration reads the weights invalid, so
\* the process goes on only if no iteration is left.
ThreadStep(t) ==
    /\ pc \in {"create", "join"}
    /\ thr[t].st = "run"
    /\ IF Pending(t)
       THEN LET s == NextStore(t)
            IN  /\ writes' = writes \cup {[t |-> s.t, x |-> s.x, y |-> s.y, c |-> s.c, idx |-> s.idx]}
                /\ IF s.idx \in DOMAIN result.pixels
                   THEN /\ result' = [result EXCEPT !.pixels[s.idx] = s.val]
                        /\ thr' = [thr EXCEPT ![t].k = @ + 1]
                        /\ UNCHANGED <<corrupt, pc, exitCode>>
                   ELSE /\ UNCHANGED result
                        /\ \/ /\ corrupt' = corrupt \cup {"other"}
                              /\ thr' = [thr EXCEPT ![t].k = @ + 1]
                              /\ UNCHANGED <<pc, exitCode>>
                           \/ /\ LastIteration(t)
                              /\ corrupt' = corrupt \cup {"kernel"}
                              /\ thr' = [thr EXCEPT ![t].k = @ + 1]
                              /\ UNCHANGED <<pc, exitCode>>
                           \/ /\ \E o \in HeapPast : corrupt' = corrupt \cup {o}
                              /\ pc' = "crashed"
                              /\ exitCode' = 139
                              /\ UNCHANGED thr
       ELSE /\ thr' = [thr EXCEPT ![t].st = "done"]
            /\ UNCHANGED <<result, writes, corrupt, pc, exitCode>>
    /\ UNCHANGED <<fileOk, file, filterArg, img, reads, outFile, saved>>
    /\ UNCHANGED <<iMain, data>>
    /\ UNCHANGED mpiVars
    /\ UNCHANGED <<convVars, ompVars>>
    /\ UNCHANGED ejVars

\* A join loop that does not wait for the thread to return.
PthJoinNoWait ==
    /\ pc = "join"
    /\ IF iMain + 1 < 4
       THEN iMain' = iMain + 1 /\ UNCHANGED pc
       ELSE iMain' = 0 /\ pc' = "save"
    /\ UNCHANGED <<fileOk, file, filterArg, img, result, reads, outFile, saved, exitCode>>
    /\ UNCHANGED <<data, thr, writes, corrupt>>
    /\ UNCHANGED mpiVars
    /\ UNCHANGED <<convVars, ompVars>>
    /\ UNCHANGED ejVars

\* for (i = 0; i < 4; i++) pthread_join(threads[i], NULL);
PthJoin ==
    /\ pc = "join"
    /\ thr[iMain].st = "done"
    /\ IF iMain + 1 < 4
       THEN iMain' = iMain + 1 /\ UNCHANGED pc
       ELSE iMain' = 0 /\ pc' = "save"
    /\ UNCHANGED <<fileOk, file, filterArg, img, result, reads, outFile, saved, exitCode>>
    /\ UNCHANGED <<data, thr, writes, corrupt>>
    /\ UNCHANGED mpiVars
    /\ UNCHANGED <<convVars, ompVars>>
    /\ UNCHANGED ejVars

\* result.save(argv[2]); delete filter; return 0;
PthSave ==
    /\ pc = "save"
    /\ outFile' = result
    /\ saved' = TRUE
    /\ pc' = "exit"
    /\ exitCode' = 0
    /\ UNCHANGED <<fileOk, file, filterArg, img, result, reads>>
    /\ UNCHANGED pthVars
    /\ UNCHANGED mpiVars
    /\ UNCHANGED <<convVars, ompVars>>
    /\ UNCHANGED ejVars

\* The input files of the thread runs: ramps of at most PthMaxSamples samples.
PthImages ==
    { im \in RampImages :
        im.width * im.height * Channels(im.magic) <= PthMaxSamples }

PthInit == InitMain(PthImages) /\ InitPth /\ NoMpi /\ InitConv("filter_phtreads") /\ NoOmp /\ NoEj

PthNext ==
    \/ PthLoad
    \/ PthSelect
    \/ PthSplit
    \/ PthCreate
    \/ \E t \in Threads : ThreadStep(t)
    \/ PthJoin
    \/ PthSave

SpecPth == PthInit /\ [][PthNext]_vars

\* ---------------------------------------------------------- filter_MPI.cpp
Ranks == 0..(size - 1)

\* An uninitialised int holds any value; two of them are followed.
GarbageInts == 0..1

\* magic.size()
StrLen(str) == IF str = "" THEN 0 ELSE 2

\* A row count that compares i <= remainder.
RowsOfOffByOne(r, height, sz) ==
    (height \div sz) + (IF r <= height % sz THEN 1 ELSE 0)

\* int rows = rowsPerProc + (i < remainder ? 1 : 0);
RowsOf(r, height, sz) ==
    (height \div sz) + (IF r < height % sz THEN 1 ELSE 0)

RECURSIVE FillBands(_, _, _, _, _, _, _)
\* The loop of rank 0 over i = r..size-1 with the running offset.
FillBands(r, offset, counts, dsp, height, sz, rowLen) ==
    IF r >= sz THEN [counts |-> counts, displs |-> dsp]
    ELSE LET cnt == RowsOf(r, height, sz) * rowLen
         IN  FillBands(r + 1, offset + cnt,
                       [counts EXCEPT ![r] = cnt], [dsp EXCEPT ![r] = offset],
                       height, sz, rowLen)

\* The table with every band placed as if all bands had rowsPerProc rows.
BandTableEqual(height, sz, width, channels) ==
    [counts |-> [q \in 0..(sz - 1) |-> RowsOf(q, height, sz) * width * channels],
     displs |-> [q \in 0..(sz - 1) |-> q * (height \div sz) * width * channels]]

\* std::vector<int> sendcounts(size), displs(size), filled by rank 0.
BandTable(height, sz, width, channels) ==
    FillBands(0, 0, [r \in 0..(sz - 1) |-> 0], [r \in 0..(sz - 1) |-> 0],
              height, sz, width * channels)

\* A gather that gives every rank a block of total / size samples, as
\* MPI_Gather does, whatever the table says.
GatheredEqualBlocks(total, counts, dsp, parts) ==
    LET blk == total \div Cardinality(DOMAIN counts)
    IN  [j \in 0..(total - 1) |->
            LET from == { r \in DOMAIN counts : r * blk <= j /\ j < r * blk + counts[r] }
            IN  IF from = {} THEN 0
                ELSE LET r == CHOOSE r \in from : \A q \in from : q <= r
                     IN  parts[r].pixels[j - r * blk]]

\* MPI_Gatherv at the root: rank r's recvcounts[r] samples land at displs[r];
\* resultPixels.resize(totalPixels) zero-fills the rest.
Gathered(total, counts, dsp, parts) ==
    [j \in 0..(total - 1) |->
        LET from == { r \in DOMAIN counts : dsp[r] <= j /\ j < dsp[r] + counts[r] }
        IN  IF from = {} THEN 0
            ELSE LET r == CHOOSE r \in from : \A q \in from : q <= r
                 IN  parts[r].pixels[j - dsp[r]]]

\* the if / else-if chain on filterArg; else MPI_Finalize(); return 1;
MpiSelect(r) ==
    /\ rpc[r] = "select"
    /\ IF SelectFilter(filterArg) = NoFilter
       THEN /\ rpc' = [rpc EXCEPT ![r] = "exit"]
            /\ rexit' = [rexit EXCEPT ![r] = 1]
       ELSE /\ rpc' = [rpc EXCEPT ![r] = IF r = 0 THEN "load" ELSE "bcast"]
            /\ UNCHANGED rexit
    /\ UNCHANGED mainVars
    /\ UNCHANGED pthVars
    /\ UNCHANGED <<size, nb, loc, sendcounts, displs, bcast, scat, scatv, gath, resultPixels>>
    /\ UNCHANGED calls
    /\ UNCHANGED <<convVars, ompVars>>
    /\ UNCHANGED ejVars

\* if (rank == 0) { img.load(argv[1]); } with the result ignored, then the
\* copies of img.width, img.height, img.maxColor and img.magic.  After a
\* failed load the ints of img are uninitialised.
MpiLoad ==
    /\ rpc[0] = "load"
    /\ IF fileOk
       THEN img' = file
       ELSE \E gw \in GarbageInts, gh \in GarbageInts, gm \in GarbageInts :
              img' = [magic |-> "", width |-> gw, height |-> gh, maxColor |-> gm,
                      pixels |-> <<>>]
    /\ loc' = [loc EXCEPT ![0].width = img'.width, ![0].height = img'.height,
                          ![0].maxColor = img'.maxColor, ![0].magic = img'.magic,
                          ![0].magicLen = StrLen(img'.magic)]
    /\ rpc' = [rpc EXCEPT ![0] = "bcast"]
    /\ UNCHANGED <<fileOk, file, filterArg, pc, result, reads, outFile, saved, exitCode>>
    /\ UNCHANGED pthVars
    /\ UNCHANGED <<size, nb, sendcounts, displs, bcast, scat, scatv, gath, resultPixels, rexit>>
    /\ UNCHANGED calls
    /\ UNCHANGED <<convVars, ompVars>>
    /\ UNCHANGED ejVars

\* The value rank 0 contributes to its k-th MPI_Bcast (k from 0).
BcastValue(l, k) ==
    CASE k = 0 -> l.width
      [] k = 1 -> l.height
      [] k = 2 -> l.maxColor
      [] k = 3 -> l.magicLen
      [] k = 4 -> l.magic

\* What a rank's locals are after its k-th MPI_Bcast delivered v.
BcastStore(l, k, v) ==
    CASE k = 0 -> [l EXCEPT !.width = v]
      [] k = 1 -> [l EXCEPT !.height = v]
      [] k = 2 -> [l EXCEPT !.maxColor = v]
      [] k = 3 -> [l EXCEPT !.magicLen = v]
      [] k = 4 -> [l EXCEPT !.magic = v]

\* The five MPI_Bcast calls, one per step: the root's call hands the value
\* over, another rank's call returns once the root has made the same call.
MpiBcast(r) ==
    /\ rpc[r] = "bcast"
    /\ IF r = 0
       THEN /\ bcast' = Append(bcast, BcastValue(loc[0], nb[0]))
            /\ UNCHANGED loc
       ELSE /\ Len(bcast) > nb[r]
            /\ loc' = [loc EXCEPT ![r] = BcastStore(loc[r], nb[r], bcast[nb[r] + 1])]
            /\ UNCHANGED bcast
    /\ nb' = [nb EXCEPT ![r] = @ + 1]
    /\ rpc' = [rpc EXCEPT ![r] = IF nb[r] + 1 < 5 THEN "bcast" ELSE "scatter"]
    /\ UNCHANGED mainVars
    /\ UNCHANGED pthVars
    /\ UNCHANGED <<size, sendcounts, displs, scat, scatv, gath, resultPixels, rexit>>
    /\ calls' = [calls EXCEPT ![r] = Append(@, "MPI_Bcast")]
    /\ UNCHANGED <<convVars, ompVars>>
    /\ UNCHANGED ejVars

\* channels, rowsPerProc, remainder, localRows, the table of rank 0, and
\* MPI_Scatter of one count to each rank.
MpiScatter(r) ==
    /\ rpc[r] = "scatter"
    /\ LET l == loc[r]
           rows == RowsOf(r, l.height, size)
           tbl == BandTable(l.height, size, l.width, Channels(l.magic))
       IN  IF r = 0
           THEN /\ sendcounts' = tbl.counts
                /\ displs' = tbl.displs
                /\ scat' = tbl.counts
                /\ loc' = [loc EXCEPT ![r].localRows = rows,
                                      ![r].localSize = tbl.counts[0]]
           ELSE /\ scat # <<>>
                /\ loc' = [loc EXCEPT ![r].localRows = rows,
                                      ![r].localSize = scat[r]]
                /\ UNCHANGED <<sendcounts, displs, scat>>
    /\ rpc' = [rpc EXCEPT ![r] = "scatterv"]
    /\ UNCHANGED mainVars
    /\ UNCHANGED pthVars
    /\ UNCHANGED <<size, nb, bcast, scatv, gath, resultPixels, rexit>>
    /\ calls' = [calls EXCEPT ![r] = Append(@, "MPI_Scatter")]
    /\ UNCHANGED <<convVars, ompVars>>
    /\ UNCHANGED ejVars

\* The local image a rank builds around the samples it received.
LocalImage(l, px) ==
    [magic |-> l.magic, width |-> l.width, height |-> l.localRows,
     maxColor |-> l.maxColor, pixels |-> px]

\* localInput's fields and MPI_Scatterv.  The root reads sendcounts[r]
\* samples of img.pixels from displs[r] for every r; a read past the end of
\* img.pixels is undefined: the run ends, or garbage is sent.
MpiScatterv(r) ==
    /\ rpc[r] = "scatterv"
    /\ IF r = 0
       THEN LET inside == \A q \in Ranks : \A j \in 0..(sendcounts[q] - 1) :
                             displs[q] + j \in DOMAIN img.pixels
            IN  \/ /\ inside
                   /\ scatv' = [q \in Ranks |->
                                  [j \in 0..(sendcounts[q] - 1) |-> img.pixels[displs[q] + j]]]
                   /\ loc' = [loc EXCEPT ![0].localInput = LocalImage(loc[0], scatv'[0])]
                   /\ rpc' = [rpc EXCEPT ![0] = "apply"]
                \/ /\ ~inside
                   /\ \E g \in GarbageInts :
                        scatv' = [q \in Ranks |-> [j \in 0..(sendcounts[q] - 1) |-> g]]
                   /\ loc' = [loc EXCEPT ![0].localInput = LocalImage(loc[0], scatv'[0])]
                   /\ rpc' = [rpc EXCEPT ![0] = "apply"]
                \/ /\ ~inside
                   /\ rpc' = [q \in Ranks |-> "crashed"]
                   /\ UNCHANGED <<scatv, loc>>
       ELSE /\ scatv # <<>>
            /\ loc' = [loc EXCEPT ![r].localInput = LocalImage(loc[r], scatv[r])]
            /\ rpc' = [rpc EXCEPT ![r] = "apply"]
            /\ UNCHANGED scatv
    /\ UNCHANGED mainVars
    /\ UNCHANGED pthVars
    /\ UNCHANGED <<size, nb, sendcounts, displs, bcast, scat, gath, resultPixels, rexit>>
    /\ calls' = [calls EXCEPT ![r] = Append(@, "MPI_Scatterv")]
    /\ UNCHANGED <<convVars, ompVars>>
    /\ UNCHANGED ejVars

\* localOutput = localInput; filter->applyRegion(localInput, localOutput, 0, localRows);
MpiApply(r) ==
    /\ rpc[r] = "apply"
    /\ loc' = [loc EXCEPT ![r].localOutput =
                  applyRegion(loc[r].localInput, SelectFilter(filterArg),
                              0, loc[r].localRows)]
    /\ rpc' = [rpc EXCEPT ![r] = "gatherv"]
    /\ UNCHANGED mainVars
    /\ UNCHANGED pthVars
    /\ UNCHANGED <<size, nb, sendcounts, displs, bcast, scat, scatv, gath, resultPixels, rexit>>
    /\ UNCHANGED calls
    /\ UNCHANGED <<convVars, ompVars>>
    /\ UNCHANGED ejVars

\* A gather that a rank without rows does not enter:
\* if (localSize > 0) MPI_Gatherv(...).
MpiGathervSkipEmpty(r) ==
    /\ rpc[r] = "gatherv"
    /\ IF r # 0 /\ loc[r].localSize = 0
       THEN /\ rpc' = [rpc EXCEPT ![r] = "finalize"]
            /\ UNCHANGED <<gath, resultPixels, calls>>
       ELSE /\ calls' = [calls EXCEPT ![r] = Append(@, "MPI_Gatherv")]
            /\ IF r = 0
               THEN LET parts == [gath EXCEPT ![0] = [sent |-> TRUE, pixels |-> loc[0].localOutput.pixels]]
                        l == loc[0]
                    IN  /\ \A q \in Ranks \ {0} : gath[q].sent
                        /\ gath' = parts
                        /\ resultPixels' =
                             Gathered(l.width * l.height * Channels(l.magic),
                                      sendcounts, displs, parts)
                        /\ rpc' = [rpc EXCEPT ![0] = "save"]
               ELSE /\ gath' = [gath EXCEPT ![r] = [sent |-> TRUE, pixels |-> loc[r].localOutput.pixels]]
                    /\ rpc' = [rpc EXCEPT ![r] = "finalize"]
                    /\ UNCHANGED resultPixels
    /\ UNCHANGED mainVars
    /\ UNCHANGED pthVars
    /\ UNCHANGED <<size, nb, loc, sendcounts, displs, bcast, scat, scatv, rexit>>
    /\ UNCHANGED <<convVars, ompVars>>
    /\ UNCHANGED ejVars

\* A gather whose root does not wait for the other ranks: what has not
\* arrived is left as resize() zero-filled it.
MpiGathervNoWait(r) ==
    /\ rpc[r] = "gatherv"
    /\ IF r = 0
       THEN LET l == loc[0]
                parts == [q \in Ranks |->
                            IF q = 0 THEN [sent |-> TRUE, pixels |-> l.localOutput.pixels]
                            ELSE IF gath[q].sent THEN gath[q]
                            ELSE [sent |-> FALSE,
                                  pixels |-> [k \in 0..(sendcounts[q] - 1) |-> 0]]]
            IN  /\ gath' = [gath EXCEPT ![0] = parts[0]]
                /\ resultPixels' =
                     Gathered(l.width * l.height * Channels(l.magic),
                              sendcounts, displs, parts)
                /\ rpc' = [rpc EXCEPT ![0] = "save"]
       ELSE /\ gath' = [gath EXCEPT ![r] = [sent |-> TRUE, pixels |-> loc[r].localOutput.pixels]]
            /\ rpc' = [rpc EXCEPT ![r] = "finalize"]
            /\ UNCHANGED resultPixels
    /\ UNCHANGED mainVars
    /\ UNCHANGED pthVars
    /\ UNCHANGED <<size, nb, loc, sendcounts, displs, bcast, scat, scatv, rexit>>
    /\ calls' = [calls EXCEPT ![r] = Append(@, "MPI_Gatherv")]
    /\ UNCHANGED <<convVars, ompVars>>
    /\ UNCHANGED ejVars

\* resultPixels.resize(totalPixels) on rank 0 and MPI_Gatherv: a rank hands
\* over its localSize samples; the root returns once every rank has.
MpiGatherv(r) ==
    /\ rpc[r] = "gatherv"
    /\ IF r = 0
       THEN LET parts == [gath EXCEPT ![0] = [sent |-> TRUE, pixels |-> loc[0].localOutput.pixels]]
                l == loc[0]
            IN  /\ \A q \in Ranks \ {0} : gath[q].sent
                /\ gath' = parts
                /\ resultPixels' =
                     Gathered(l.width * l.height * Channels(l.magic),
                              sendcounts, displs, parts)
                /\ rpc' = [rpc EXCEPT ![0] = "save"]
       ELSE /\ gath' = [gath EXCEPT ![r] = [sent |-> TRUE, pixels |-> loc[r].localOutput.pixels]]
            /\ rpc' = [rpc EXCEPT ![r] = "finalize"]
            /\ UNCHANGED resultPixels
    /\ UNCHANGED mainVars
    /\ UNCHANGED pthVars
    /\ UNCHANGED <<size, nb, loc, sendcounts, displs, bcast, scat, scatv, rexit>>
    /\ calls' = [calls EXCEPT ![r] = Append(@, "MPI_Gatherv")]
    /\ UNCHANGED <<convVars, ompVars>>
    /\ UNCHANGED ejVars

\* if (rank == 0) { Image result; ...; result.pixels = resultPixels; result.save(argv[2]); }
MpiSave ==
    /\ rpc[0] = "save"
    /\ result' = [magic |-> loc[0].magic, width |-> loc[0].width,
                  height |-> loc[0].height, maxColor |-> loc[0].maxColor,
                  pixels |-> resultPixels]
    /\ outFile' = result'
    /\ saved' = TRUE
    /\ rpc' = [rpc EXCEPT ![0] = "finalize"]
    /\ UNCHANGED <<fileOk, file, filterArg, pc, img, reads, exitCode>>
    /\ UNCHANGED pthVars
    /\ UNCHANGED <<size, nb, loc, sendcounts, displs, bcast, scat, scatv, gath, resultPixels, rexit>>
    /\ UNCHANGED calls
    /\ UNCHANGED <<convVars, ompVars>>
    /\ UNCHANGED ejVars

\* delete filter; MPI_Finalize(); return 0;
MpiFinalize(r) ==
    /\ rpc[r] = "finalize"
    /\ rpc' = [rpc EXCEPT ![r] = "exit"]
    /\ rexit' = [rexit EXCEPT ![r] = 0]
    /\ UNCHANGED mainVars
    /\ UNCHANGED pthVars
    /\ UNCHANGED <<size, nb, loc, sendcounts, displs, bcast, scat, scatv, gath, resultPixels>>
    /\ UNCHANGED calls
    /\ UNCHANGED <<convVars, ompVars>>
    /\ UNCHANGED ejVars

\* The input files of the distributed runs: ramps whose rows have at most
\* MpiMaxRowLen samples.
MpiImages ==
    { im \in RampImages : im.width * Channels(im.magic) <= MpiMaxRowLen }

MpiInit ==
    InitMain(MpiImages) /\ InitPth /\ InitMpi(1..MaxSize) /\ InitConv("filter_MPI") /\ NoOmp /\ NoEj

MpiNext ==
    \/ \E r \in Ranks : MpiSelect(r)
    \/ MpiLoad
    \/ \E r \in Ranks : MpiBcast(r)
    \/ \E r \in Ranks : MpiScatter(r)
    \/ \E r \in Ranks : MpiScatterv(r)
    \/ \E r \in Ranks : MpiApply(r)
    \/ \E r \in Ranks : MpiGatherv(r)
    \/ MpiSave
    \/ \E r \in Ranks : MpiFinalize(r)

SpecMPI == MpiInit /\ [][MpiNext]_vars

\* filter_MPI.cpp on the small input files.
MpiSmallInit ==
    InitMain(PthImages) /\ InitPth /\ InitMpi(1..MaxSize) /\ InitConv("filter_MPI") /\ NoOmp /\ NoEj

\* The steps of main other than the call of applyRegion.
MpiComm ==
    \/ \E r \in Ranks : MpiSelect(r)
    \/ MpiLoad
    \/ \E r \in Ranks : MpiBcast(r)
    \/ \E r \in Ranks : MpiScatter(r)
    \/ \E r \in Ranks : MpiScatterv(r)
    \/ \E r \in Ranks : MpiGatherv(r)
    \/ MpiSave
    \/ \E r \in Ranks : MpiFinalize(r)

\* applyRegion is a nest of for loops with fixed bounds: every call returns.
ApplyReturns == []<>(\A r \in Ranks : rpc[r] # "apply")

\* filter_MPI.cpp on the one-column grayscale files of every height.
MpiColumnInit ==
    /\ InitMain({ im \in RampImages : im.width = 1 /\ im.magic = "P2" })
    /\ InitPth /\ InitMpi(1..MaxSize) /\ InitConv("filter_MPI") /\ NoOmp /\ NoEj

\* Every rank is a running process: while some rank can take a step of main,
\* one is taken, and no rank stays in applyRegion for ever.
SpecMPIFair ==
    MpiColumnInit /\ [][MpiNext]_vars /\ WF_vars(MpiComm) /\ ApplyReturns

\* The quadrant table alone, on larger images: main up to the table.
QuadImages == ImagesOf(QuadMaxDim, QuadMaxDim, MaxColor, TRUE)

QuadInit ==
    InitMain(QuadImages) /\ InitPth /\ NoMpi /\ InitConv("filter_phtreads") /\ NoOmp /\ NoEj

QuadNext == PthLoad \/ PthSelect \/ PthSplit

SpecQuad == QuadInit /\ [][QuadNext]_vars

\* ---------------------------------------------------------- filter_omp.cpp
\* The three omp sections of main.
Sections == {"blur", "laplace", "sharpen"}

\* A main whose laplace section passes resultBlur.
OmpTargetPasted(s) ==
    IF s = "sharpen" THEN "resultSharpen" ELSE "resultBlur"

\* The Image each section passes to aplicar and saves:
\* blur.aplicar(img, resultBlur), laplace.aplicar(img, resultLaplace), ...
OmpTarget(s) ==
    CASE s = "blur" -> "resultBlur"
      [] s = "laplace" -> "resultLaplace"
      [] s = "sharpen" -> "resultSharpen"

OmpBuffers == {"resultBlur", "resultLaplace", "resultSharpen"}

\* The file each section saves to.
OmpFile(s) ==
    CASE s = "blur" -> "out_blur.ppm"
      [] s = "laplace" -> "out_laplace.ppm"
      [] s = "sharpen" -> "out_sharpen.ppm"

OmpFiles == {"out_blur.ppm", "out_laplace.ppm", "out_sharpen.ppm"}

\* #pragma omp parallel for collapse(2): the iterations (y, x) of the two
\* outer loops, handed to the threads of the team in any order.
OmpIterations(input) ==
    (0..(input.height - 1)) \X (0..(input.width - 1))

\* if (!img.load(argv[1])) return 1; Image resultBlur, resultLaplace,
\* resultSharpen; then the sections start.
OmpLoad ==
    /\ pc = "load"
    /\ IF fileOk
       THEN /\ img' = file
            /\ pc' = "sections"
            /\ ompPc' = [s \in Sections |-> "aplicar"]
            /\ UNCHANGED exitCode
       ELSE /\ pc' = "exit"
            /\ exitCode' = 1
            /\ UNCHANGED <<img, ompPc>>
    /\ UNCHANGED <<fileOk, file, filterArg, result, reads, outFile, saved>>
    /\ UNCHANGED <<pthVars, mpiVars, convVars>>
    /\ UNCHANGED <<ompTodo, ompRes, ompWrites, ompOut>>
    /\ UNCHANGED ejVars

\* Section s enters aplicar: output = input; channels, kw, half; the team of
\* the parallel for is handed the collapsed iterations.
OmpEnter(s) ==
    /\ ompPc[s] = "aplicar"
    /\ ompRes' = [ompRes EXCEPT ![OmpTarget(s)] = img]
    /\ ompTodo' = [ompTodo EXCEPT ![s] = OmpIterations(img)]
    /\ ompPc' = [ompPc EXCEPT ![s] = "for"]
    /\ UNCHANGED <<mainVars, pthVars, mpiVars, convVars>>
    /\ UNCHANGED <<ompWrites, ompOut>>
    /\ UNCHANGED ejVars

\* One iteration (y, x) of section s on some thread: the loop over c with its
\* stores output.pixels[idx] = clampValue((int)sum, 0, input.maxColor).
OmpIteration(s, y, x) ==
    /\ ompPc[s] = "for"
    /\ <<y, x>> \in ompTodo[s]
    /\ LET ch == Channels(img.magic)
           b == OmpTarget(s)
       IN  /\ ompRes' = [ompRes EXCEPT ![b].pixels =
                   [j \in DOMAIN @ |->
                       IF \E c \in 0..(ch - 1) : j = PixelIndex(img.width, ch, x, y, c)
                       THEN PixelValue(img, SelectFilter(s), x, y, j % ch)
                       ELSE @[j]]]
           /\ ompWrites' = ompWrites \cup
                   { [s |-> s, buf |-> b, y |-> y, x |-> x, c |-> c,
                      idx |-> PixelIndex(img.width, ch, x, y, c)] : c \in 0..(ch - 1) }
    /\ ompTodo' = [ompTodo EXCEPT ![s] = @ \ {<<y, x>>}]
    /\ UNCHANGED <<mainVars, pthVars, mpiVars, convVars>>
    /\ UNCHANGED <<ompPc, ompOut>>
    /\ UNCHANGED ejVars

\* The barrier at the end of the parallel for: aplicar returns.
OmpReturn(s) ==
    /\ ompPc[s] = "for"
    /\ ompTodo[s] = {}
    /\ ompPc' = [ompPc EXCEPT ![s] = "save"]
    /\ UNCHANGED <<mainVars, pthVars, mpiVars, convVars>>
    /\ UNCHANGED <<ompTodo, ompRes, ompWrites, ompOut>>
    /\ UNCHANGED ejVars

\* resultBlur.save("out_blur.ppm"); and the like: the end of the section.
OmpSave(s) ==
    /\ ompPc[s] = "save"
    /\ ompOut' = [ompOut EXCEPT ![OmpFile(s)] = ompRes[OmpTarget(s)]]
    /\ ompPc' = [ompPc EXCEPT ![s] = "done"]
    /\ UNCHANGED <<mainVars, pthVars, mpiVars, convVars>>
    /\ UNCHANGED <<ompTodo, ompRes, ompWrites>>
    /\ UNCHANGED ejVars

\* The barrier at the end of the sections; return 0;
OmpExit ==
    /\ pc = "sections"
    /\ \A s \in Sections : ompPc[s] = "done"
    /\ pc' = "exit"
    /\ exitCode' = 0
    /\ UNCHANGED <<fileOk, file, filterArg, img, result, reads, outFile, saved>>
    /\ UNCHANGED <<pthVars, mpiVars, convVars, ompVars>>
    /\ UNCHANGED ejVars

\* The input files of the section runs: ramps of at most OmpMaxPixels pixels.
OmpImages ==
    { im \in RampImages : im.width * im.height <= OmpMaxPixels }

\* filter_omp.cpp takes the input file only.
OmpInit ==
    /\ \/ fileOk = TRUE /\ file \in OmpImages
       \/ fileOk = FALSE /\ file = EmptyImage
    /\ filterArg = ""
    /\ pc = "load"
    /\ img = EmptyImage
    /\ result = EmptyImage
    /\ reads = {}
    /\ outFile = EmptyImage
    /\ saved = FALSE
    /\ exitCode = -1
    /\ InitPth /\ NoMpi /\ InitConv("filter_omp") /\ NoEj
    /\ ompPc = [s \in Sections |-> "idle"]
    /\ ompTodo = [s \in Sections |-> {}]
    /\ ompRes = [b \in OmpBuffers |-> EmptyImage]
    /\ ompWrites = {}
    /\ ompOut = [f \in OmpFiles |-> EmptyImage]

OmpNext ==
    \/ OmpLoad
    \/ \E s \in Sections : OmpEnter(s)
    \/ \E s \in Sections : \E it \in ompTodo[s] : OmpIteration(s, it[1], it[2])
    \/ \E s \in Sections : OmpReturn(s)
    \/ \E s \in Sections : OmpSave(s)
    \/ OmpExit

SpecOmp == OmpInit /\ [][OmpNext]_vars

\* The three programs that take a kernel name, each on the small input files.
ProgInit ==
    \/ InitMain(PthImages) /\ InitPth /\ NoMpi /\ InitConv("filter") /\ NoOmp /\ NoEj
    \/ InitMain(PthImages) /\ InitPth /\ NoMpi /\ InitConv("filter_phtreads") /\ NoOmp /\ NoEj
    \/ MpiSmallInit

ProgNext ==
    \/ variant = "filter" /\ SeqNext
    \/ variant = "filter_phtreads" /\ PthNext
    \/ variant = "filter_MPI" /\ MpiNext

SpecProg == ProgInit /\ [][ProgNext]_vars

\* ---------------------------------------------------------- Ejercicio_02.cpp
\* const int n = 5000000: thread_count (10 in the source) times the length of
\* one thread's range (500000 in the source).
n == thread_count * MaxChunk

\* long my_rank of the threads main creates.
EjRanks == 0..(thread_count - 1)

\* The contents calcularArreglo can give A: every A[i] is rand() % 1000, here
\* a value below MaxA; the sequences a*i + b modulo MaxA.
Arrays ==
    { [i \in 0..(n - 1) |-> (a * i + b) % MaxA] : a \in 0..(MaxA - 1), b \in 0..(MaxA - 1) }

\* long long my_n = n/thread_count;
my_n == n \div thread_count

\* long long my_first_i = my_n*my_rank;
my_first_i(my_rank) == my_n * my_rank

\* long long my_last_i = my_first_i + my_n;
my_last_i(my_rank) == my_first_i(my_rank) + my_n

\* calcularArreglo(); pthread_mutex_init(&paralel_sum, NULL);
\* calcularArreglo is declared int and has no return statement: flowing off
\* its end is undefined.  The build either returns to main with A filled, or
\* (g++ -O1 and above) keeps writing past A[n - 1] until the process is killed.
EjFill ==
    /\ ejPc = "fill"
    /\ \/ /\ A' \in Arrays
          /\ ejPc' = "create"
       \/ /\ ejPc' = "crashed"
          /\ UNCHANGED A
    /\ UNCHANGED <<sumEj, paralel_sum, tEj, worker, added>>
    /\ UNCHANGED <<mainVars, pthVars, mpiVars, convVars, ompVars>>

\* for (long t=0; t < thread_count; t++) pthread_create(&threads[t], NULL, CalcularSuma, (void*) t);
EjCreate ==
    /\ ejPc = "create"
    /\ worker' = [worker EXCEPT ![tEj].pc = "loop", ![tEj].i = my_first_i(tEj)]
    /\ IF tEj + 1 < thread_count
       THEN tEj' = tEj + 1 /\ UNCHANGED ejPc
       ELSE tEj' = 0 /\ ejPc' = "join"
    /\ UNCHANGED <<A, sumEj, paralel_sum, added>>
    /\ UNCHANGED <<mainVars, pthVars, mpiVars, convVars, ompVars>>

\* for (i = my_first_i; i < my_last_i; i++) local_sum += A[i];
\* one iteration, or the end of the loop.  A[i] is below 1000 and the sums
\* stay below 2^53, so the double additions are exact.
EjLoop(r) ==
    /\ worker[r].pc = "loop"
    /\ IF worker[r].i < my_last_i(r)
       THEN worker' = [worker EXCEPT ![r].local_sum = @ + A[worker[r].i],
                                     ![r].i = @ + 1]
       ELSE worker' = [worker EXCEPT ![r].pc = "lock"]
    /\ UNCHANGED <<A, sumEj, paralel_sum, ejPc, tEj, added>>
    /\ UNCHANGED <<mainVars, pthVars, mpiVars, convVars, ompVars>>

\* A lock that does not wait for the mutex to be free.
EjLockNoWait(r) ==
    /\ worker[r].pc = "lock"
    /\ paralel_sum' = r
    /\ worker' = [worker EXCEPT ![r].pc = "read"]
    /\ UNCHANGED <<A, sumEj, ejPc, tEj, added>>
    /\ UNCHANGED <<mainVars, pthVars, mpiVars, convVars, ompVars>>

\* pthread_mutex_lock(&paralel_sum);
EjLock(r) ==
    /\ worker[r].pc = "lock"
    /\ paralel_sum = -1
    /\ paralel_sum' = r
    /\ worker' = [worker EXCEPT ![r].pc = "read"]
    /\ UNCHANGED <<A, sumEj, ejPc, tEj, added>>
    /\ UNCHANGED <<mainVars, pthVars, mpiVars, convVars, ompVars>>

\* sum += local_sum; the load of sum
EjRead(r) ==
    /\ worker[r].pc = "read"
    /\ worker' = [worker EXCEPT ![r].reg = sumEj, ![r].pc = "write"]
    /\ UNCHANGED <<A, sumEj, paralel_sum, ejPc, tEj, added>>
    /\ UNCHANGED <<mainVars, pthVars, mpiVars, convVars, ompVars>>

\* sum += local_sum; the store to sum
EjWrite(r) ==
    /\ worker[r].pc = "write"
    /\ sumEj' = worker[r].reg + worker[r].local_sum
    /\ added' = [added EXCEPT ![r] = @ + 1]
    /\ worker' = [worker EXCEPT ![r].pc = "unlock"]
    /\ UNCHANGED <<A, paralel_sum, ejPc, tEj>>
    /\ UNCHANGED <<mainVars, pthVars, mpiVars, convVars, ompVars>>

\* pthread_mutex_unlock(&paralel_sum); return NULL;
EjUnlock(r) ==
    /\ worker[r].pc = "unlock"
    /\ paralel_sum' = -1
    /\ worker' = [worker EXCEPT ![r].pc = "done"]
    /\ UNCHANGED <<A, sumEj, ejPc, tEj, added>>
    /\ UNCHANGED <<mainVars, pthVars, mpiVars, convVars, ompVars>>

\* for (int t = 0; t < thread_count; t++) pthread_join(threads[t], NULL);
EjJoin ==
    /\ ejPc = "join"
    /\ worker[tEj].pc = "done"
    /\ IF tEj + 1 < thread_count
       THEN tEj' = tEj + 1 /\ UNCHANGED ejPc
       ELSE tEj' = 0 /\ ejPc' = "print"
    /\ UNCHANGED <<A, sumEj, paralel_sum, worker, added>>
    /\ UNCHANGED <<mainVars, pthVars, mpiVars, convVars, ompVars>>

\* pthread_mutex_destroy(&paralel_sum); cout << ... << sum << endl; return 0;
EjPrint ==
    /\ ejPc = "print"
    /\ ejPc' = "exit"
    /\ UNCHANGED <<A, sumEj, paralel_sum, tEj, worker, added>>
    /\ UNCHANGED <<mainVars, pthVars, mpiVars, convVars, ompVars>>

\* int A[n] and double sum = 0.0 before main; no thread exists.
EjInit ==
    /\ fileOk = FALSE /\ file = EmptyImage /\ filterArg = ""
    /\ pc = "none" /\ img = EmptyImage /\ result = EmptyImage /\ reads = {}
    /\ outFile = EmptyImage /\ saved = FALSE /\ exitCode = -1
    /\ InitPth /\ NoMpi /\ InitConv("Ejercicio_02") /\ NoOmp
    /\ A = [i \in 0..(n - 1) |-> 0]
    /\ sumEj = 0
    /\ paralel_sum = -1
    /\ ejPc = "fill"
    /\ tEj = 0
    /\ worker = [r \in EjRanks |-> [pc |-> "none", i |-> 0, local_sum |-> 0, reg |-> 0]]
    /\ added = [r \in EjRanks |-> 0]

EjNext ==
    \/ EjFill
    \/ EjCreate
    \/ \E r \in EjRanks : EjLoop(r)
    \/ \E r \in EjRanks : EjLock(r)
    \/ \E r \in EjRanks : EjRead(r)
    \/ \E r \in EjRanks : EjWrite(r)
    \/ \E r \in EjRanks : EjUnlock(r)
    \/ EjJoin
    \/ EjPrint

SpecEj == EjInit /\ [][EjNext]_vars

\* ================================================================ claims
\* The buffer the sequential aplicar of filter.cpp produces for the input file.
Sequential == aplicar(file, SelectFilter(filterArg)).pixels

\* C1: the buffer rank 0 of filter_MPI.cpp assembles and saves is identical,
\* sample for sample, to the one the sequential aplicar produces for the same
\* image and kernel, for every process count.
C1_MpiEqualsSequential ==
    (saved /\ fileOk) => outFile.pixels = Sequential

\* C2: the buffer filter_phtreads.cpp saves after its four threads have run
\* is identical to the one the sequential aplicar produces, whatever the
\* interleaving.
C2_PthEqualsSequential ==
    (saved /\ pc = "exit") => outFile.pixels = Sequential

\* C3: no index of result.pixels is stored by more than one of the four
\* threads, and no two threads have a store pending to the same index.
C3_DisjointStores ==
    /\ \A w1 \in writes : \A w2 \in writes : w1.idx = w2.idx => w1.t = w2.t
    /\ \A t1 \in Threads : \A t2 \in Threads \ {t1} :
          (Pending(t1) /\ Pending(t2)) => NextStore(t1).idx # NextStore(t2).idx

\* The coordinates of the loaded image.
ImageCoords ==
    (0..(img.width - 1)) \X (0..(img.height - 1)) \X (0..(Channels(img.magic) - 1))

\* C4: once main has joined all four threads, every output sample (x, y, c)
\* of the image has been stored by some thread's ApliRegion.
C4_AllStoredAfterJoin ==
    pc = "save" =>
        \A w \in ImageCoords :
            \E s \in writes : s.x = w[1] /\ s.y = w[2] /\ s.c = w[3]

\* The rows of band r according to the table of rank 0.
BandRows(r) ==
    LET rowLen == loc[0].width * Channels(loc[0].magic)
    IN  { y \in 0..(loc[0].height - 1) :
            /\ displs[r] <= y * rowLen
            /\ y * rowLen < displs[r] + sendcounts[r] }

\* Rank 0 has built its table from a loaded image.
TableBuilt == fileOk /\ sendcounts # <<>>

\* C5: the row bands of filter_MPI.cpp are pairwise disjoint, start and end
\* on row boundaries, and their union is exactly [0, height).
C5_BandsPartitionRows ==
    TableBuilt =>
        LET rowLen == loc[0].width * Channels(loc[0].magic)
        IN  /\ \A r \in Ranks : displs[r] % rowLen = 0 /\ sendcounts[r] % rowLen = 0
            /\ \A r \in Ranks : Cardinality(BandRows(r)) * rowLen = sendcounts[r]
            /\ \A r \in Ranks : \A q \in Ranks \ {r} : BandRows(r) \cap BandRows(q) = {}
            /\ UNION { BandRows(r) : r \in Ranks } = 0..(loc[0].height - 1)

C5_Witness ==
    TableBuilt /\ size = 2 /\ loc[0].height = 3 /\ BandRows(0) = {0, 1} /\ BandRows(1) = {2}

\* C6: each rank gets floor(height/size) rows, the first height mod size ranks
\* one more; band sizes differ by at most one row; a band is empty only when
\* size > height; every rank computes the same count for itself.
C6_BandSizes ==
    TableBuilt =>
        LET rowLen == loc[0].width * Channels(loc[0].magic)
            h == loc[0].height
            rows == [r \in Ranks |-> sendcounts[r] \div rowLen]
            more == { r \in Ranks : rows[r] = (h \div size) + 1 }
        IN  /\ \A r \in Ranks : rows[r] = h \div size \/ r \in more
            /\ more = { r \in Ranks : r < h % size }
            /\ \A r \in Ranks : \A q \in Ranks : rows[r] - rows[q] <= 1
            /\ \A r \in Ranks : rows[r] = 0 => size > h
            /\ \A r \in Ranks :
                  rpc[r] \in {"scatterv", "apply", "gatherv", "save", "finalize", "exit"}
                     => /\ loc[r].localRows = rows[r]
                        /\ loc[r].localSize = sendcounts[r]

C6_Witness ==
    /\ TableBuilt /\ size = 3 /\ loc[0].height = 2
    /\ rpc[2] = "apply" /\ loc[2].localRows = 0 /\ loc[1].localRows = 1

\* The coordinates (x, y) of region d of the table.
Cells(d) == (d.startX..(d.endX - 1)) \X (d.startY..(d.endY - 1))

\* C7: the four regions of the ThreadInfo table are pairwise disjoint, their
\* union is exactly [0, width) x [0, height), and the odd final column and
\* row go to the quadrants after the midpoint.
C7_QuadrantsTile ==
    data # <<>> =>
        /\ \A t \in Threads : \A u \in Threads \ {t} : Cells(data[t]) \cap Cells(data[u]) = {}
        /\ UNION { Cells(data[t]) : t \in Threads }
              = (0..(img.width - 1)) \X (0..(img.height - 1))
        /\ (data[1].endX - data[1].startX) - (data[0].endX - data[0].startX) = img.width % 2
        /\ (data[2].endY - data[2].startY) - (data[0].endY - data[0].startY) = img.height % 2

C7_Witness ==
    data # <<>> /\ img.width = 3 /\ img.height = 3 /\ Cardinality(Cells(data[3])) = 4

\* C8 as stated: for every width >= 1 and height >= 1 each of the four regions
\* of the table contains at least one coordinate.
C8_NoEmptyQuadrant ==
    data # <<>> =>
        \A t \in Threads :
            data[t].startX < data[t].endX /\ data[t].startY < data[t].endY

\* C8 amended: a region of the table is empty exactly when the image is one
\* column wide and the region lies left of the midpoint, or one row high and
\* the region lies above it; for width >= 2 and height >= 2 none is empty.
C8_EmptyOnlyBeforeMidpointOfOne ==
    data # <<>> =>
        \A t \in Threads :
            Cells(data[t]) = {}
               <=> \/ img.width = 1 /\ t \in {0, 2}
                   \/ img.height = 1 /\ t \in {0, 1}

C8_Witness ==
    data # <<>> /\ img.width = 1 /\ img.height = 2
       /\ Cells(data[2]) = {} /\ Cells(data[3]) = {<<0, 1>>}

\* The integer nearest to M * 2^e, halves away from zero.
NearestInt(M, e) ==
    IF e >= 0 THEN M * (2 ^ e)
    ELSE Sgn(M) * ((2 * Abs(M) + 2 ^ (-e)) \div (2 ^ (1 - e)))

\* M * 2^e with its fraction dropped.
TruncInt(M, e) ==
    IF e >= 0 THEN M * (2 ^ e)
    ELSE Sgn(M) * (Abs(M) \div (2 ^ (-e)))

\* The sequential convolution of a 1x1 image has run.
OneByOneDone == pc = "save" /\ img.width = 1 /\ img.height = 1

\* The centre weight kernel[1][1] of the selected kernel.
Centre == SelectFilter(filterArg)[1][1]

\* C9 as stated: for a 1x1 image with sample s the output equals
\* clamp(round(center_weight * s), 0, maxValue), round to the nearest integer.
C9_CentreRounded ==
    OneByOneDone =>
        \A c \in DOMAIN result.pixels :
            result.pixels[c]
               = clampValue(NearestInt(img.pixels[c] * Centre.m, Centre.e), 0, img.maxColor)

\* C9 amended: for a 1x1 image with sample s the output equals
\* clamp(trunc(center_weight * s), 0, maxValue), the fraction being dropped;
\* the eight out-of-range taps contribute nothing.
C9_CentreTruncated ==
    OneByOneDone =>
        \A c \in DOMAIN result.pixels :
            result.pixels[c]
               = clampValue(TruncInt(img.pixels[c] * Centre.m, Centre.e), 0, img.maxColor)

C9_Witness ==
    OneByOneDone /\ filterArg = "blur" /\ img.magic = "P2"
       /\ img.pixels[0] = 5 /\ result.pixels[0] = 0

\* The taps of (x, y) whose neighbour lies inside the image.
InsideTaps(x, y) ==
    { k \in (-1..1) \X (-1..1) :
        /\ 0 <= x + k[1] /\ x + k[1] < img.width
        /\ 0 <= y + k[2] /\ y + k[2] < img.height }

\* The weighted sum of (x, y, c) over the inside taps, for a kernel of
\* integer weights, in exact arithmetic.
RECURSIVE ExactSum(_, _, _, _)
ExactSum(taps, x, y, c) ==
    IF taps = {} THEN 0
    ELSE LET k == CHOOSE k \in taps : TRUE
         IN  img.pixels[((y + k[2]) * img.width + (x + k[1])) * Channels(img.magic) + c]
                * SelectFilter(filterArg)[k[2] + 1][k[1] + 1].m
             + ExactSum(taps \ {k}, x, y, c)

\* C10: for every coordinate (x, y, c) of the image, aplicar adds exactly the
\* taps whose neighbour lies in [0, width) x [0, height), reads input.pixels
\* only inside [0, width*height*channels), and stores a value for it.
C10_TapsInsideOnly ==
    pc = "save" =>
        /\ \A r \in reads : 0 <= r.idx /\ r.idx < img.width * img.height * Channels(img.magic)
        /\ \A w \in ImageCoords :
              /\ { <<r.kx, r.ky>> : r \in { q \in reads : q.x = w[1] /\ q.y = w[2] /\ q.c = w[3] } }
                    = InsideTaps(w[1], w[2])
              /\ filterArg \in {"laplace", "sharpen"} =>
                    result.pixels[(w[2] * img.width + w[1]) * Channels(img.magic) + w[3]]
                       = clampValue(ExactSum(InsideTaps(w[1], w[2]), w[1], w[2], w[3]),
                                    0, img.maxColor)
        /\ DOMAIN result.pixels = DOMAIN img.pixels

C10_Witness ==
    /\ pc = "save" /\ img.width = 3 /\ img.height = 3 /\ filterArg = "sharpen"
    /\ Cardinality({ r \in reads : r.x = 0 /\ r.y = 0 /\ r.c = 0 }) = 4
    /\ Cardinality({ r \in reads : r.x = 1 /\ r.y = 1 /\ r.c = 0 }) = 9

\* The exact weighted sum of coordinate w = <<x, y, c>> over its inside taps.
WeightedSum(w) == ExactSum(InsideTaps(w[1], w[2]), w[1], w[2], w[3])

\* The sample the sequential convolution stored for coordinate w.
Stored(w) == result.pixels[(w[2] * img.width + w[1]) * Channels(img.magic) + w[3]]

\* C11: every sample a convolution writes lies in [0, maxColor]; with the
\* laplace and sharpen kernels a weighted sum above maxColor is written as
\* exactly maxColor and one below 0 as exactly 0, never wrapped around.
C11_Saturates ==
    pc = "save" =>
        /\ \A j \in DOMAIN result.pixels :
              0 <= result.pixels[j] /\ result.pixels[j] <= img.maxColor
        /\ filterArg \in {"laplace", "sharpen"} =>
              \A w \in ImageCoords :
                 /\ WeightedSum(w) > img.maxColor => Stored(w) = img.maxColor
                 /\ WeightedSum(w) < 0 => Stored(w) = 0

C11_Witness ==
    /\ pc = "save" /\ filterArg = "sharpen"
    /\ \E w \in ImageCoords : WeightedSum(w) > img.maxColor /\ Stored(w) = img.maxColor
    /\ \E w \in ImageCoords : WeightedSum(w) < 0 /\ Stored(w) = 0

\* C12: a ConvolutionFilter built from the 3x3 table whose only nonzero weight
\* is 1 at the centre, applied to an image whose samples lie in [0, maxColor],
\* produces an output buffer equal to the input buffer, sample for sample.
C12_IdentityKernel ==
    (pc = "done" /\ kernel = IdentityKernel) =>
        /\ result.pixels = img.pixels
        /\ result = img

C12_Witness ==
    /\ pc = "done" /\ kernel = IdentityKernel
    /\ img.magic = "P3" /\ img.width = 3 /\ img.height = 3
    /\ img.pixels[4] = img.maxColor /\ result.pixels[4] = img.maxColor
    /\ result.pixels[3] = 0

\* The sequential blur of the 4x4 grayscale image of ceiling 255 whose samples
\* are all 100 has run.
Uniform4x4Blurred ==
    /\ pc = "save" /\ filterArg = "blur"
    /\ img.magic = "P2" /\ img.width = 4 /\ img.height = 4 /\ img.maxColor = 255
    /\ \A j \in DOMAIN img.pixels : img.pixels[j] = 100

\* C13 as stated: the blur of that image has every sample, interior, border
\* and corner alike, equal to 100.
C13_UniformStaysUniform ==
    Uniform4x4Blurred => \A j \in DOMAIN result.pixels : result.pixels[j] = 100

\* C13 amended: the blur of a uniform image of value 100 stores, for a sample
\* with n in-bounds taps, floor(100 * n / 9): 100 at interior samples (n = 9),
\* 66 on an edge (n = 6) and 44 in a corner (n = 4) of the 4x4 image.
C13_UniformBlurByTaps ==
    (pc = "save" /\ filterArg = "blur") =>
        /\ \A w \in ImageCoords :
              Stored(w) = (100 * Cardinality(InsideTaps(w[1], w[2]))) \div 9
        /\ Uniform4x4Blurred =>
              /\ \A w \in {1, 2} \X {1, 2} \X {0} : Stored(w) = 100
              /\ \A w \in {0, 3} \X {0, 3} \X {0} : Stored(w) = 44
              /\ \A w \in ({0, 3} \X {1, 2} \X {0}) \cup ({1, 2} \X {0, 3} \X {0}) :
                    Stored(w) = 66

C13_Witness ==
    /\ Uniform4x4Blurred
    /\ result.pixels[0] = 44 /\ result.pixels[1] = 66 /\ result.pixels[5] = 100

\* sendcounts[0] + ... + sendcounts[r - 1]
RECURSIVE CountsBelow(_)
CountsBelow(r) == IF r = 0 THEN 0 ELSE CountsBelow(r - 1) + sendcounts[r - 1]

\* The ranks whose place in resultPixels contains index j.
OwnersOf(j) == { r \in Ranks : displs[r] <= j /\ j < displs[r] + sendcounts[r] }

\* Rank 0 has returned from MPI_Gatherv on a loaded image.
GatherDone == fileOk /\ size > 0 /\ gath[0].sent

\* C14: the gathered buffer on rank 0 is the concatenation of the ranks'
\* partial outputs in ascending rank order: rank r's localSize samples land at
\* displs[r], the sum of sendcounts[j] for j < r; every index of resultPixels
\* in [0, width*height*channels) receives exactly one sample; and each band
\* comes back to the offset it was scattered from.
C14_GatherInRankOrder ==
    GatherDone =>
        /\ DOMAIN resultPixels
              = 0..(loc[0].width * loc[0].height * Channels(loc[0].magic) - 1)
        /\ \A j \in DOMAIN resultPixels : Cardinality(OwnersOf(j)) = 1
        /\ \A r \in Ranks :
              /\ displs[r] = CountsBelow(r)
              /\ loc[r].localSize = sendcounts[r]
              /\ DOMAIN gath[r].pixels = 0..(sendcounts[r] - 1)
              /\ \A k \in 0..(sendcounts[r] - 1) :
                    /\ resultPixels[displs[r] + k] = loc[r].localOutput.pixels[k]
                    /\ loc[r].localInput.pixels[k] = img.pixels[displs[r] + k]

C14_Witness ==
    /\ GatherDone /\ size = 3 /\ loc[0].height = 3 /\ img.magic = "P3"
    /\ displs[2] = 6 /\ sendcounts[2] = 3
    /\ resultPixels[7] = loc[2].localOutput.pixels[1]

\* C15: if rank 0 fails to load the input file the whole job is aborted: no
\* rank gets a broadcast value, a count or a slice, none computes or gathers,
\* and no output file is written.
C15_FailedLoadAborts ==
    (~fileOk /\ size > 0) =>
        /\ bcast = <<>> /\ scat = <<>> /\ scatv = <<>>
        /\ \A r \in Ranks :
              /\ nb[r] = 0
              /\ rpc[r] \notin {"scatter", "scatterv", "apply", "gatherv", "save"}
              /\ ~gath[r].sent
        /\ ~saved

\* The program has ended: main has returned, on every rank if there are ranks.
JobEnded ==
    IF variant = "filter_MPI" THEN \A r \in Ranks : rpc[r] = "exit" ELSE pc = "exit"

\* C16: with a kernel name other than blur, laplace, sharpen, filter.cpp,
\* filter_phtreads.cpp and filter_MPI.cpp end with a failure status without
\* running a convolution, starting a thread or writing an output file; every
\* rank of filter_MPI.cpp returns before entering any collective operation, so
\* the job can stop only with every rank returned.
C16_UnknownKernelFails ==
    filterArg \notin FilterNames =>
        /\ ~saved /\ outFile = EmptyImage
        /\ reads = {} /\ writes = {}
        /\ pc \in {"load", "select", "exit"}
        /\ pc = "exit" => exitCode = 1
        /\ \A t \in Threads : thr[t].st = "none"
        /\ bcast = <<>>
        /\ \A r \in Ranks :
              /\ rpc[r] \in {"select", "exit"}
              /\ calls[r] = <<>>
              /\ loc[r].localOutput = EmptyImage
              /\ rpc[r] = "exit" => rexit[r] = 1
        /\ ~(ENABLED ProgNext) => JobEnded

C16_Witness ==
    /\ variant = "filter_MPI" /\ filterArg = "other" /\ fileOk /\ size = 3
    /\ \A r \in Ranks : rpc[r] = "exit" /\ rexit[r] = 1 /\ calls[r] = <<>>

\* The collective operations of main, in program order.
Pipeline ==
    <<"MPI_Bcast", "MPI_Bcast", "MPI_Bcast", "MPI_Bcast", "MPI_Bcast",
      "MPI_Scatter", "MPI_Scatterv", "MPI_Gatherv">>

IsPrefix(a, b) == Len(a) <= Len(b) /\ \A k \in 1..Len(a) : a[k] = b[k]

\* Rank r has returned from applyRegion.
Computed(r) ==
    rpc[r] \in {"gatherv", "save", "finalize"} \/ (rpc[r] = "exit" /\ rexit[r] = 0)

\* C17: on every rank the phases are a strict pipeline: the broadcasts, then
\* Scatter and Scatterv, then applyRegion, then Gatherv, then the save on rank
\* 0; a rank is at or past applyRegion only with its whole slice received, and
\* rank 0 saves only with the partial result of every rank received.
C17_StrictPipeline ==
    \A r \in Ranks :
        /\ IsPrefix(calls[r], Pipeline)
        /\ rpc[r] = "bcast" => Len(calls[r]) = nb[r] /\ nb[r] < 5
        /\ rpc[r] = "scatter" => Len(calls[r]) = 5 /\ nb[r] = 5
        /\ rpc[r] = "scatterv" => Len(calls[r]) = 6
        /\ (rpc[r] = "apply" \/ Computed(r)) =>
              /\ Len(calls[r]) >= 7
              /\ scatv # <<>>
              /\ loc[r].localInput.pixels = scatv[r]
              /\ DOMAIN loc[r].localInput.pixels = 0..(loc[r].localSize - 1)
        /\ rpc[r] = "apply" => Len(calls[r]) = 7 /\ loc[r].localOutput = EmptyImage
        /\ rpc[r] = "gatherv" => Len(calls[r]) = 7
        /\ gath[r].sent => Computed(r) /\ gath[r].pixels = loc[r].localOutput.pixels
        /\ (rpc[0] \in {"save", "finalize"} \/ saved) =>
              /\ Len(calls[r]) = 8
              /\ gath[r].sent
        /\ saved => r = 0 \/ rpc[r] \in {"finalize", "exit"}

C17_Witness ==
    /\ size = 3 /\ fileOk /\ saved
    /\ rpc[0] = "finalize" /\ rpc[1] = "exit" /\ rpc[2] = "finalize"
    /\ \A r \in Ranks : calls[r] = Pipeline /\ gath[r].sent

\* main of filter_phtreads.cpp is in result.save or past it.
SaveReached == pc = "save" \/ saved

\* C18: main of filter_phtreads.cpp calls result.save only after all four
\* threads have returned from Func: while or after the buffer is saved no
\* thread is running or has a store to result.pixels left.
C18_SaveAfterAllJoined ==
    SaveReached =>
        \A t \in Threads : thr[t].st = "done" /\ ~Pending(t)

C18_Witness ==
    /\ pc = "save" /\ img.width = 2 /\ img.height = 2
    /\ \A t \in Threads : thr[t].st = "done"
    /\ \E w \in writes : w.t = 3

\* The buffer the sequential aplicar of filter.cpp produces for the input
\* file with the kernel of section s.
SequentialOf(s) == aplicar(file, SelectFilter(s))

\* The iterations of section s that have stored to index j of buffer b.
WritersOf(s, b, j) ==
    { <<w.y, w.x>> : w \in { v \in ompWrites : v.s = s /\ v.buf = b /\ v.idx = j } }

\* C19: under every schedule of the collapsed (y, x) iterations, aplicar of
\* filter_omp.cpp stores each output index from exactly one iteration and
\* leaves a buffer identical to the sequential aplicar of filter.cpp for the
\* same kernel; each of the three sections stores only to its own result.
C19_OmpEqualsSequential ==
    /\ \A w \in ompWrites :
          w.buf = (CASE w.s = "blur" -> "resultBlur"
                     [] w.s = "laplace" -> "resultLaplace"
                     [] w.s = "sharpen" -> "resultSharpen")
    /\ \A s \in DOMAIN ompPc : \A b \in OmpBuffers : \A j \in DOMAIN img.pixels :
          Cardinality(WritersOf(s, b, j)) <= 1
    /\ \A s \in DOMAIN ompPc :
          ompPc[s] \in {"save", "done"} =>
             /\ \A j \in DOMAIN img.pixels :
                   \E b \in OmpBuffers : Cardinality(WritersOf(s, b, j)) = 1
             /\ ompPc[s] = "done" =>
                   ompOut["out_" \o s \o ".ppm"] = SequentialOf(s)
    /\ (variant = "filter_omp" /\ pc = "exit" /\ exitCode = 0) =>
          /\ ompRes["resultBlur"] = SequentialOf("blur")
          /\ ompRes["resultLaplace"] = SequentialOf("laplace")
          /\ ompRes["resultSharpen"] = SequentialOf("sharpen")

C19_Witness ==
    /\ variant = "filter_omp" /\ pc = "exit" /\ exitCode = 0
    /\ img.width = 2 /\ img.height = 2 /\ img.magic = "P3"
    /\ Cardinality(ompWrites) = 36
    /\ ompOut["out_sharpen.ppm"] = SequentialOf("sharpen")
    /\ ompOut["out_sharpen.ppm"] # ompOut["out_blur.ppm"]

\* Rank r has made all eight collective calls and returned 0 after
\* MPI_Finalize.
Finalized(r) == rpc[r] = "exit" /\ rexit[r] = 0 /\ calls[r] = Pipeline

\* C20: for every process count and every loaded image, also with more ranks
\* than rows, every rank makes the same sequence of collective calls (five
\* broadcasts, Scatter, Scatterv, Gatherv) and eventually reaches
\* MPI_Finalize; no rank waits forever in a collective.
C20_AllRanksFinalize ==
    (fileOk /\ filterArg \in FilterNames) ~> (\A r \in Ranks : Finalized(r))

C20_Witness ==
    /\ fileOk /\ size = 3 /\ loc[0].height = 1
    /\ loc[1].localRows = 0 /\ loc[2].localSize = 0
    /\ \A r \in Ranks : Finalized(r)

\* The objects of a job that the claim says no worker writes: the samples of
\* the input and the weights of the kernel.
Protected == {"img.pixels", "kernel"}

\* C21: in every variant the input image is unchanged by a job: once loaded,
\* img holds the samples and geometry of the file until the job ends, the
\* band a rank convolves holds the samples it was sent, and no store of a
\* worker lands in the input pixel buffer or in the kernel.
C21_InputUnchanged ==
    /\ (fileOk /\ img # EmptyImage) => img = file
    /\ \A r \in Ranks :
          loc[r].localInput # EmptyImage => loc[r].localInput.pixels = scatv[r]
    /\ corrupt \cap Protected = {}

\* C22: in filter_phtreads.cpp every store a worker thread performs lands
\* inside the row it addresses and inside the output buffer: its coordinate
\* has 0 <= x < width and 0 <= y < height, and its index
\* (y*width+x)*channels+c lies in [0, width*height*channels).
C22_StoresInsideBuffer ==
    \A w \in writes :
        /\ 0 <= w.x /\ w.x < img.width
        /\ 0 <= w.y /\ w.y < img.height
        /\ 0 <= w.idx /\ w.idx < img.width * img.height * Channels(img.magic)

\* The index range of the thread my_rank.
RangeOf(my_rank) == my_first_i(my_rank)..(my_last_i(my_rank) - 1)

RECURSIVE SumUpTo(_)
\* A[0] + ... + A[k - 1]
SumUpTo(k) == IF k = 0 THEN 0 ELSE SumUpTo(k - 1) + A[k - 1]

\* main of Ejercicio_02.cpp has joined every thread.
AllJoined == ejPc \in {"print", "exit"}

\* C23: in Ejercicio_02.cpp, under every interleaving of the thread_count
\* threads, once main has joined them all the global sum is the sum of A[i]
\* over [0, n): the ranges of the threads are pairwise disjoint and cover
\* [0, n), each thread has added its local sum exactly once, and it makes the
\* addition only while it holds the mutex.
C23_SumOfAllElements ==
    /\ \A r \in DOMAIN worker :
          worker[r].pc \in {"read", "write", "unlock"} => paralel_sum = r
    /\ AllJoined =>
          /\ sumEj = SumUpTo(n)
          /\ \A r \in EjRanks : \A q \in EjRanks \ {r} : RangeOf(r) \cap RangeOf(q) = {}
          /\ UNION { RangeOf(r) : r \in EjRanks } = 0..(n - 1)
          /\ \A r \in EjRanks : added[r] = 1 /\ worker[r].i = my_last_i(r)

\* All threads are joined, each has added a non-zero local sum, the sums of
\* threads 0 and 1 differ, and thread 0 was not the first to add.
C23_Witness ==
    /\ AllJoined
    /\ sumEj = SumUpTo(n) /\ sumEj > 0
    /\ \A r \in EjRanks : worker[r].local_sum > 0
    /\ worker[0].local_sum # worker[1].local_sum
    /\ worker[0].reg > 0

====
